---- MODULE Spec2Model ----
(***************************************************************************)
(* Move selection for knight's Isolation: the MCTS/UCT driver and the      *)
(* iterative-deepening alpha-beta driver of my_custom_player.py, together  *)
(* with the two get_action entry points that feed the action queue.        *)
(*                                                                         *)
(* The Isolation board is an external collaborator.  It is modelled as an  *)
(* abstract finite game: a board is a number, result() is a deterministic  *)
(* transition on boards, the liberties of both players are read off the    *)
(* board, and the game is over for the player to move who has no liberty.  *)
(* float('inf') is the integer Inf; every finite value of the model is     *)
(* strictly between -Inf and Inf.                                          *)
(***************************************************************************)
EXTENDS Integers, Sequences, FiniteSets, TLC

(* ---- bounds ---- *)
NumBoards == 120    \* alpha-beta is started on the boards 0 .. NumBoards-1
NumTreeBoards == 24 \* MCTS is started on the boards 0 .. NumTreeBoards-1
MaxLibs == 3        \* a player has at most MaxLibs liberties
LastPly == 5        \* from this ply on nobody has a liberty (board used up)
MaxYields == 3      \* values pulled from a driver before the caller stops
MaxPulls == 7       \* the same, for the runs on the one-winning-move roots

(* ---- values ---- *)
None == 0           \* Python's None; actions are >= 1
Inf == 100          \* float('inf'); -Inf is float('-inf')

Min(a, b) == IF a <= b THEN a ELSE b
Max(a, b) == IF a >= b THEN a ELSE b

Range(s) == {s[i] : i \in 1..Len(s)}

(***************************************************************************)
(* The game state (isolation.Isolation), consumed through its interface.   *)
(***************************************************************************)
Isolation(b, p) == [board |-> b, ply_count |-> p]

\* the player to move
player(s) == s.ply_count % 2

\* state.locs[id]: the location of player id (a location names its owner)
locs(s, id) == id

\* state.liberties(loc): the cells the piece at loc can move to
liberties(s, loc) ==
    IF s.ply_count >= LastPly THEN {}
    ELSE IF loc = 0 THEN 1..(s.board % (MaxLibs + 1))
    ELSE 1..((s.board \div (MaxLibs + 1)) % (MaxLibs + 1))

\* state.actions(): one action per liberty of the player to move, in a
\* stable order; the action values differ from board to board
actions(s) ==
    [i \in 1..Cardinality(liberties(s, locs(s, player(s)))) |-> (s.board % 4) + i]

\* state.terminal_test(): the player to move has no legal action
terminal_test(s) == Len(actions(s)) = 0

\* state.result(action): a new state, one ply later
result(s, a) ==
    Isolation((3 * s.board * s.board + 211 * a * a + a * s.board + 11) % 997,
              s.ply_count + 1)

\* the winner of a terminal state
winner(s) == (s.board \div ((MaxLibs + 1) * (MaxLibs + 1))) % 2

\* state.utility(id): +w for the winner and -w for the loser, where w is
\* the magnitude the library uses (float('inf') in isolation.py)
utility(s, id, w) == IF winner(s) = id THEN w ELSE -w

(***************************************************************************)
(* State of one call.                                                      *)
(***************************************************************************)
VARIABLES
    call,              \* the entry point that was called
    state,             \* the Isolation state handed to it
    player_id,         \* self.player_id, the player the search is run for
    W,                 \* magnitude of state.utility()
    pulls,             \* how many values the caller pulls from a driver
    returned,          \* return value of a direct call of alpha_beta
    pc,                \* position of the call / of the generator
    queue,             \* self.queue: the actions put so far
    yielded,           \* the values the driver has yielded so far
    depth,             \* alpha_beta_iter: depth
    nodes,             \* MCTS: the Node objects, by identity 1..Len(nodes)
    promising,         \* MCTS.next_move: promising
    exploration_node,  \* MCTS.next_move: exploration_node
    playout,           \* MCTS.next_move: result
    snapshot,          \* history: nodes as they were when the simulation began
    sims               \* history: the simulation nodes of the completed iterations

vars == <<call, state, player_id, W, pulls, returned, pc, queue, yielded,
          depth, nodes, promising, exploration_node, playout, snapshot, sims>>

(***************************************************************************)
(* AlphaBetaPlayer                                                         *)
(***************************************************************************)
\* a faulty score: opponent liberties minus own liberties
score_swapped(s) ==
    Cardinality(liberties(s, locs(s, 1 - player_id)))
        - Cardinality(liberties(s, locs(s, player_id)))

\* AlphaBetaPlayer.score: own liberties minus opponent liberties
score(s) ==
    LET own_loc == locs(s, player_id)
        opp_loc == locs(s, 1 - player_id)
        own_liberties == liberties(s, own_loc)
        opp_liberties == liberties(s, opp_loc)
    IN  Cardinality(own_liberties) - Cardinality(opp_liberties)

RECURSIVE min_value(_, _, _, _), max_value(_, _, _, _)
RECURSIVE min_loop(_, _, _, _, _, _), max_loop(_, _, _, _, _, _)
RECURSIVE min_loop_cut_on_beta(_, _, _, _, _, _)
RECURSIVE max_loop_cut_on_alpha(_, _, _, _, _, _)

\* a faulty min_value loop: the cut-off tests beta where it should test alpha
min_loop_cut_on_beta(m_state, m_depth, m_alpha, m_beta, value, i) ==
    IF i > Len(actions(m_state)) THEN value
    ELSE LET v == Min(value, max_value(result(m_state, actions(m_state)[i]),
                                       m_depth - 1, m_alpha, m_beta))
         IN  IF v <= m_beta THEN v
             ELSE min_loop_cut_on_beta(m_state, m_depth, m_alpha,
                                       Min(m_beta, v), v, i + 1)

\* the for loop of min_value from the i-th action on, with the running value
min_loop(m_state, m_depth, m_alpha, m_beta, value, i) ==
    IF i > Len(actions(m_state)) THEN value
    ELSE LET v == Min(value, max_value(result(m_state, actions(m_state)[i]),
                                       m_depth - 1, m_alpha, m_beta))
         IN  IF v <= m_alpha THEN v
             ELSE min_loop(m_state, m_depth, m_alpha, Min(m_beta, v), v, i + 1)

\* a faulty max_value loop: the cut-off tests alpha where it should test beta
max_loop_cut_on_alpha(m_state, m_depth, m_alpha, m_beta, value, i) ==
    IF i > Len(actions(m_state)) THEN value
    ELSE LET v == Max(value, min_value(result(m_state, actions(m_state)[i]),
                                       m_depth - 1, m_alpha, m_beta))
         IN  IF v >= m_alpha THEN v
             ELSE max_loop_cut_on_alpha(m_state, m_depth, Max(m_alpha, v),
                                        m_beta, v, i + 1)

\* the for loop of max_value from the i-th action on, with the running value
max_loop(m_state, m_depth, m_alpha, m_beta, value, i) ==
    IF i > Len(actions(m_state)) THEN value
    ELSE LET v == Max(value, min_value(result(m_state, actions(m_state)[i]),
                                       m_depth - 1, m_alpha, m_beta))
         IN  IF v >= m_beta THEN v
             ELSE max_loop(m_state, m_depth, Max(m_alpha, v), m_beta, v, i + 1)

min_value(m_state, m_depth, m_alpha, m_beta) ==
    IF terminal_test(m_state) THEN utility(m_state, player_id, W)
    ELSE IF m_depth <= 0 THEN score(m_state)
    ELSE min_loop(m_state, m_depth, m_alpha, m_beta, Inf, 1)

\* a faulty max_value: the depth test comes before the terminal test
max_value_depth_first(m_state, m_depth, m_alpha, m_beta) ==
    IF m_depth <= 0 THEN score(m_state)
    ELSE IF terminal_test(m_state) THEN utility(m_state, player_id, W)
    ELSE max_loop(m_state, m_depth, m_alpha, m_beta, -Inf, 1)

max_value(m_state, m_depth, m_alpha, m_beta) ==
    IF terminal_test(m_state) THEN utility(m_state, player_id, W)
    ELSE IF m_depth <= 0 THEN score(m_state)
    ELSE max_loop(m_state, m_depth, m_alpha, m_beta, -Inf, 1)

\* the root loop of alpha_beta from the i-th action on
RECURSIVE root_loop(_, _, _, _, _, _)
root_loop(s, d, alpha, best_score, best_move, i) ==
    IF i > Len(actions(s)) THEN best_move
    ELSE LET a == actions(s)[i]
             v == min_value(result(s, a), d - 1, alpha, Inf)
         IN  IF v > best_score
             THEN root_loop(s, d, Max(alpha, v), v, a, i + 1)
             ELSE root_loop(s, d, Max(alpha, v), best_score, best_move, i + 1)

\* AlphaBetaPlayer.alpha_beta
alpha_beta(s, d) == root_loop(s, d, -Inf, -Inf, None, 1)

\* a faulty start of alpha_beta_iter: depth = 0, the first search has depth 1
AlphaBetaIterStart_depth_zero ==
    /\ pc = "alpha_beta_iter"
    /\ depth' = 0
    /\ pc' = "ab_loop"
    /\ UNCHANGED <<sims, snapshot, call, state, player_id, W, pulls, returned, queue,
                   yielded, nodes, promising, exploration_node, playout>>

\* AlphaBetaPlayer.alpha_beta_iter, first call of next(): depth = 1
AlphaBetaIterStart ==
    /\ pc = "alpha_beta_iter"
    /\ depth' = 1
    /\ pc' = "ab_loop"
    /\ UNCHANGED <<sims, snapshot, call, state, player_id, W, pulls, returned, queue, yielded, nodes,
                   promising, exploration_node, playout>>

\* AlphaBetaPlayer.alpha_beta_iter, one turn of the loop up to its yield
AlphaBetaIterStep ==
    /\ pc = "ab_loop"
    /\ Len(yielded) < pulls
    /\ depth' = depth + 1
    /\ yielded' = Append(yielded, alpha_beta(state, depth + 1))
    /\ pc' = "ab_yield"
    /\ UNCHANGED <<sims, snapshot, call, state, player_id, W, pulls, returned, queue, nodes,
                   promising, exploration_node, playout>>

\* a direct call alpha_beta(state, depth)
AlphaBetaCall ==
    /\ pc = "alpha_beta"
    /\ returned' = alpha_beta(state, depth)
    /\ pc' = "returned"
    /\ UNCHANGED <<sims, snapshot, call, state, player_id, W, pulls, queue,
                   yielded, depth, nodes, promising, exploration_node,
                   playout>>

(***************************************************************************)
(* Stats, Node                                                             *)
(***************************************************************************)
\* a faulty Stats: a new node starts with visit_count 1
Node_visited(s, id, parent, action) ==
    [state |-> s, player_id |-> id, visit_count |-> 1, win_score |-> 0,
     action |-> action, parent |-> parent, children |-> <<>>]

\* Node(Stats(state, player_id), parent, action): a fresh node
Node(s, id, parent, action) ==
    [state |-> s, player_id |-> id, visit_count |-> 0, win_score |-> 0,
     action |-> action, parent |-> parent, children |-> <<>>]

\* a faulty max: among equal greatest keys the last element wins
max_key_last(keys) ==
    CHOOSE i \in 1..Len(keys) :
        /\ \A j \in 1..Len(keys) : keys[j] <= keys[i]
        /\ \A j \in (i + 1)..Len(keys) : keys[j] < keys[i]

\* max(seq, key=...): the index of the first element with the greatest key,
\* given the keys of the elements
max_key(keys) ==
    CHOOSE i \in 1..Len(keys) :
        /\ \A j \in 1..Len(keys) : keys[j] <= keys[i]
        /\ \A j \in 1..(i - 1) : keys[j] < keys[i]

\* a faulty best_child: the child with the greatest win score
best_child_by_win_score(ns, n) ==
    LET children == ns[n].children
    IN  children[max_key([i \in 1..Len(children) |-> ns[children[i]].win_score])]

\* a faulty best_child: the node the last simulation started from
best_child_last_simulated(ns, n) == exploration_node

\* Node.best_child: the child with the greatest visit count
best_child(ns, n) ==
    LET children == ns[n].children
        key(c) == ns[c].visit_count
    IN  children[max_key([i \in 1..Len(children) |-> key(children[i])])]

(***************************************************************************)
(* UCT.  Floats are fixed-point numbers with four decimals; for parent     *)
(* visit counts up to 10 the fixed-point scores of any two children        *)
(* compare exactly as the floats of the source do.                         *)
(***************************************************************************)
Scale == 10000

\* math.log(n) for n = 1..10, scaled; math.log(0) raises ValueError
LogTable == <<0, 6931, 10986, 13863, 16094, 17918, 19459, 20794, 21972, 23026>>

\* math.sqrt on scaled numbers: the integer square root of x
RECURSIVE isqrt(_, _, _)
isqrt(x, lo, hi) ==
    IF lo >= hi THEN lo
    ELSE LET mid == (lo + hi + 1) \div 2
         IN  IF mid * mid <= x THEN isqrt(x, mid, hi) ELSE isqrt(x, lo, mid - 1)

\* a faulty uct: the mean score enters with the wrong sign
uct_negated_score(total_visit, win_score, node_visit) ==
    IF node_visit = 0 THEN Inf * Scale
    ELSE (-win_score * Scale) \div node_visit
         + (705 * isqrt((LogTable[total_visit] * Scale) \div node_visit, 0, 16000))
           \div 1000

\* UCT.uct
uct(total_visit, win_score, node_visit) ==
    IF node_visit = 0 THEN Inf * Scale
    ELSE (win_score * Scale) \div node_visit
         + (705 * isqrt((LogTable[total_visit] * Scale) \div node_visit, 0, 16000))
           \div 1000

\* UCT.uct raises (math.log of 0) for some child of node n
uct_raises(ns, n) ==
    /\ ns[n].visit_count = 0
    /\ \E i \in 1..Len(ns[n].children) : ns[ns[n].children[i]].visit_count # 0

\* UCT.best_node
best_node(ns, n) ==
    LET parent_visit == ns[n].visit_count
        children == ns[n].children
        key(c) == uct(parent_visit, ns[c].win_score, ns[c].visit_count)
    IN  children[max_key([i \in 1..Len(children) |-> key(children[i])])]

(***************************************************************************)
(* MCTS                                                                    *)
(***************************************************************************)
\* MCTS.promising_action: walk down by UCT.best_node while there are children
RECURSIVE promising_action(_, _)
promising_action(ns, n) ==
    IF Len(ns[n].children) # 0 THEN promising_action(ns, best_node(ns, n)) ELSE n

\* MCTS.promising_action raises on its way down
RECURSIVE promising_raises(_, _)
promising_raises(ns, n) ==
    /\ Len(ns[n].children) # 0
    /\ \/ uct_raises(ns, n)
       \/ promising_raises(ns, best_node(ns, n))

\* a faulty is_terminal: no node is taken for terminal
is_terminal_never(ns, n) == FALSE

\* MCTS.is_terminal
is_terminal(ns, n) == terminal_test(ns[n].state)

\* a faulty expansion: the states of the children are the results of the
\* actions in the root's state
expand_children_root_state(ns, n) ==
    LET acts == actions(ns[n].state)
    IN  [i \in 1..Len(acts) |->
            Node(result(ns[1].state, acts[i]), ns[n].player_id, n, acts[i])]

\* the children MCTS.expand_node appends to node n, as new nodes k+1, k+2, ..
expand_children(ns, n) ==
    LET acts == actions(ns[n].state)
    IN  [i \in 1..Len(acts) |->
            Node(result(ns[n].state, acts[i]), ns[n].player_id, n, acts[i])]

\* MCTS.expand_node
expand_node(ns, n) ==
    LET new == expand_children(ns, n)
        k == Len(ns)
    IN  [ns EXCEPT ![n].children = [i \in 1..Len(new) |-> k + i]] \o new

\* 1 if utility > 0 else -1
sign(u) == IF u > 0 THEN 1 ELSE -1

\* the results the random walk of MCTS.random_playout can end with from s
RECURSIVE playout_results(_, _)
playout_results(s, id) ==
    IF terminal_test(s) THEN {sign(utility(s, id, W))}
    ELSE UNION {playout_results(result(s, actions(s)[i]), id) :
                    i \in 1..Len(actions(s))}

\* a faulty walk to the root: the simulation node alone, no parent is followed
path_to_root_only_node(ns, n) ==
    IF n = None THEN {} ELSE {n}

\* MCTS.back_prop: the nodes from n up to the root
RECURSIVE path_to_root(_, _)
path_to_root(ns, n) ==
    IF n = None THEN {} ELSE {n} \cup path_to_root(ns, ns[n].parent)

\* a faulty back_prop: the loop stops at the root without updating it
back_prop_skip_root(ns, n, sc) ==
    [k \in 1..Len(ns) |->
        IF k \in path_to_root(ns, n) /\ ns[k].parent # None
        THEN [ns[k] EXCEPT !.visit_count = @ + 1, !.win_score = @ + sc]
        ELSE ns[k]]

\* MCTS.back_prop
back_prop(ns, n, sc) ==
    [k \in 1..Len(ns) |->
        IF k \in path_to_root(ns, n)
        THEN [ns[k] EXCEPT !.visit_count = @ + 1, !.win_score = @ + sc]
        ELSE ns[k]]

\* MCTS.next_move, first call of next(): stats, root, last
NextMoveStart ==
    /\ pc = "next_move"
    /\ nodes' = <<Node(state, player_id, None, None)>>
    /\ pc' = "select"
    /\ UNCHANGED <<sims, snapshot, call, state, player_id, W, pulls, returned, queue, yielded, depth,
                   promising, exploration_node, playout>>

\* MCTS.next_move: promising = self.promising_action(root)
Select ==
    /\ pc = "select"
    /\ Len(yielded) < pulls
    /\ IF promising_raises(nodes, 1)
       THEN pc' = "raised" /\ UNCHANGED promising
       ELSE pc' = "expand" /\ promising' = promising_action(nodes, 1)
    /\ UNCHANGED <<sims, snapshot, call, state, player_id, W, pulls, returned, queue, yielded, depth, nodes,
                   exploration_node, playout>>

\* a faulty expansion step: the simulation always starts from the selected
\* leaf, the random choice among its children is left out
Expand_simulate_leaf ==
    /\ pc = "expand"
    /\ LET ns == IF ~is_terminal(nodes, promising)
                 THEN expand_node(nodes, promising) ELSE nodes
       IN  /\ nodes' = ns
           /\ snapshot' = ns
           /\ exploration_node' = promising
    /\ pc' = "playout"
    /\ UNCHANGED <<sims, call, state, player_id, W, pulls, returned, queue, yielded, depth,
                   promising, playout>>

\* MCTS.next_move: expand promising unless terminal, then choose the
\* exploration node at random among its children, if it has any
Expand ==
    /\ pc = "expand"
    /\ LET ns == IF ~is_terminal(nodes, promising)
                 THEN expand_node(nodes, promising) ELSE nodes
       IN  /\ nodes' = ns
           /\ snapshot' = ns
           /\ IF Len(ns[promising].children) > 0
              THEN \E i \in 1..Len(ns[promising].children) :
                       exploration_node' = ns[promising].children[i]
              ELSE exploration_node' = promising
    /\ pc' = "playout"
    /\ UNCHANGED <<sims, call, state, player_id, W, pulls, returned, queue, yielded, depth,
                   promising, playout>>

\* MCTS.random_playout(exploration_node)
RandomPlayout ==
    /\ pc = "playout"
    /\ LET temp_node == exploration_node
           st == nodes[temp_node].state
           id == nodes[temp_node].player_id
       IN  IF terminal_test(st)
           THEN LET sc == sign(utility(st, id, W))
                IN  /\ nodes' = [nodes EXCEPT ![temp_node].win_score = @ + sc]
                    /\ playout' = sc
           ELSE /\ playout' \in playout_results(st, id)
                /\ UNCHANGED nodes
    /\ pc' = "back_prop"
    /\ UNCHANGED <<sims, snapshot, call, state, player_id, W, pulls, returned, queue, yielded, depth,
                   promising, exploration_node>>

\* MCTS.back_prop(exploration_node, result)
BackProp ==
    /\ pc = "back_prop"
    /\ nodes' = back_prop(nodes, exploration_node, playout)
    /\ pc' = "best"
    /\ sims' = Append(sims, exploration_node)
    /\ UNCHANGED <<snapshot, call, state, player_id, W, pulls, returned, queue, yielded, depth,
                   promising, exploration_node, playout>>

\* MCTS.next_move: yield root.best_child().action; max() of no children raises
YieldBest ==
    /\ pc = "best"
    /\ IF Len(nodes[1].children) = 0
       THEN pc' = "raised" /\ UNCHANGED yielded
       ELSE /\ yielded' = Append(yielded, nodes[best_child(nodes, 1)].action)
            /\ pc' = "mcts_yield"
    /\ UNCHANGED <<sims, snapshot, call, state, player_id, W, pulls, returned, queue, depth, nodes,
                   promising, exploration_node, playout>>

(***************************************************************************)
(* get_action of CustomPlayer and of AlphaBetaPlayer                       *)
(***************************************************************************)
GetActionCalls == {"CustomPlayer.get_action", "AlphaBetaPlayer.get_action"}

\* random.choice(state.actions()) and self.queue.put of it;
\* random.choice of an empty list raises IndexError
RandomPut ==
    /\ pc = "get_action"
    /\ IF Len(actions(state)) = 0
       THEN pc' = "raised" /\ UNCHANGED queue
       ELSE /\ \E i \in 1..Len(actions(state)) :
                   queue' = Append(queue, actions(state)[i])
            /\ pc' = "random_put"
    /\ UNCHANGED <<sims, snapshot, call, state, player_id, W, pulls, returned, yielded, depth, nodes,
                   promising, exploration_node, playout>>

\* if state.ply_count < 2: return
ReturnOpening ==
    /\ pc = "random_put"
    /\ state.ply_count < 2
    /\ pc' = "returned"
    /\ UNCHANGED <<sims, snapshot, call, state, player_id, W, pulls, returned, queue, yielded, depth, nodes,
                   promising, exploration_node, playout>>

\* CustomPlayer.get_action: the for loop over MCTS().next_move, entered
\* only if the state is not terminal
CustomStartDriver ==
    /\ pc = "random_put"
    /\ call = "CustomPlayer.get_action"
    /\ state.ply_count >= 2
    /\ pc' = IF ~terminal_test(state) THEN "next_move" ELSE "returned"
    /\ UNCHANGED <<sims, snapshot, call, state, player_id, W, pulls, returned, queue, yielded, depth, nodes,
                   promising, exploration_node, playout>>

\* AlphaBetaPlayer.get_action: the for loop over self.alpha_beta_iter
AlphaBetaStartDriver ==
    /\ pc = "random_put"
    /\ call = "AlphaBetaPlayer.get_action"
    /\ state.ply_count >= 2
    /\ pc' = "alpha_beta_iter"
    /\ UNCHANGED <<sims, snapshot, call, state, player_id, W, pulls, returned, queue, yielded, depth, nodes,
                   promising, exploration_node, playout>>

\* a faulty loop body: it puts the first value the driver yielded
QueuePut_first_yield ==
    /\ pc \in {"mcts_yield", "ab_yield"}
    /\ call \in GetActionCalls
    /\ queue' = Append(queue, yielded[1])
    /\ pc' = IF pc = "mcts_yield" THEN "select" ELSE "ab_loop"
    /\ UNCHANGED <<sims, snapshot, call, state, player_id, W, pulls, returned, yielded,
                   depth, nodes, promising, exploration_node, playout>>

\* body of the for loop of get_action: self.queue.put(action), then the
\* generator is resumed
QueuePut ==
    /\ pc \in {"mcts_yield", "ab_yield"}
    /\ call \in GetActionCalls
    /\ queue' = Append(queue, yielded[Len(yielded)])
    /\ pc' = IF pc = "mcts_yield" THEN "select" ELSE "ab_loop"
    /\ UNCHANGED <<sims, snapshot, call, state, player_id, W, pulls, returned, yielded, depth, nodes,
                   promising, exploration_node, playout>>

\* a caller of the generator itself asks for the next value
Resume ==
    /\ pc \in {"mcts_yield", "ab_yield"}
    /\ call \notin GetActionCalls
    /\ pc' = IF pc = "mcts_yield" THEN "select" ELSE "ab_loop"
    /\ UNCHANGED <<sims, snapshot, call, state, player_id, W, pulls, returned, queue, yielded, depth, nodes,
                   promising, exploration_node, playout>>

(***************************************************************************)
(* The specification                                                       *)
(***************************************************************************)
Calls == GetActionCalls \cup {"MCTS.next_move", "alpha_beta_iter", "alpha_beta"}

\* the calls that run MCTS.next_move, and those that run alpha_beta_iter
MctsCalls == {"MCTS.next_move", "CustomPlayer.get_action"}
AlphaBetaCalls == {"alpha_beta_iter", "AlphaBetaPlayer.get_action"}

\* the boards of the game
Boards == 0..996

RootPlies == {1, 2}

Init ==
    /\ call \in Calls
    /\ \E b \in Boards, p \in RootPlies :
           /\ b < (IF call \in MctsCalls THEN NumTreeBoards ELSE NumBoards)
           /\ state = Isolation(b, p)
    /\ player_id \in {0, 1}
    \* MCTS reads only the sign of utility: it runs with the library's inf
    /\ W \in (IF call \in MctsCalls THEN {Inf} ELSE {1, Inf})
    /\ pulls = MaxYields
    /\ returned = None
    /\ pc = IF call \in GetActionCalls THEN "get_action"
            ELSE IF call = "MCTS.next_move" THEN "next_move"
            ELSE call
    /\ queue = <<>>
    /\ yielded = <<>>
    /\ depth \in IF call = "alpha_beta" THEN 0..(MaxYields + 1) ELSE {0}
    /\ nodes = <<>>
    /\ promising = None
    /\ exploration_node = None
    /\ playout = 0
    /\ snapshot = <<>>
    /\ sims = <<>>

Next ==
    \/ RandomPut
    \/ ReturnOpening
    \/ CustomStartDriver
    \/ AlphaBetaStartDriver
    \/ QueuePut
    \/ Resume
    \/ NextMoveStart
    \/ Select
    \/ Expand
    \/ RandomPlayout
    \/ BackProp
    \/ YieldBest
    \/ AlphaBetaIterStart
    \/ AlphaBetaIterStep
    \/ AlphaBetaCall

Spec == Init /\ [][Next]_vars

(***************************************************************************)
(* Properties                                                              *)
(***************************************************************************)
LegalActions(s) == Range(actions(s))

\* C1: on a non-terminal input state every value MCTS.next_move yields,
\* the first one included, is a legal action of the input state and not None.
C1_MctsYieldsLegal ==
    (call \in MctsCalls /\ ~terminal_test(state)) =>
        \A i \in 1..Len(yielded) :
            yielded[i] # None /\ yielded[i] \in LegalActions(state)

\* C1 witness: a value has been yielded while the tree holds a deeper node
\* whose action is not legal in the input state.
C1_Witness ==
    /\ call \in MctsCalls
    /\ pc = "mcts_yield"
    /\ \E k \in 1..Len(nodes) :
           /\ nodes[k].parent \notin {None, 1}
           /\ nodes[k].action \notin LegalActions(state)

\* C2: on a non-terminal state every value alpha_beta_iter yields, that is
\* alpha_beta(state, depth) for depth = 2, 3, .., is a legal action of the
\* state and not None, whatever utility and the evaluator return.
C2_AlphaBetaYieldsLegal ==
    (call \in AlphaBetaCalls /\ ~terminal_test(state)) =>
        \A i \in 1..Len(yielded) :
            yielded[i] # None /\ yielded[i] \in LegalActions(state)

\* exhaustive depth-limited minimax with the terminal/utility rule, the
\* evaluator at depth <= 0 and the first-maximum rule of alpha_beta
RECURSIVE minimax_min(_, _), minimax_max(_, _)
RECURSIVE minimax_fold(_, _, _, _, _)
minimax_fold(s, d, value, i, is_min) ==
    IF i > Len(actions(s)) THEN value
    ELSE LET c == result(s, actions(s)[i])
         IN  IF is_min
             THEN minimax_fold(s, d, Min(value, minimax_max(c, d - 1)), i + 1, is_min)
             ELSE minimax_fold(s, d, Max(value, minimax_min(c, d - 1)), i + 1, is_min)

minimax_min(s, d) ==
    IF terminal_test(s) THEN utility(s, player_id, W)
    ELSE IF d <= 0 THEN score(s)
    ELSE minimax_fold(s, d, Inf, 1, TRUE)

minimax_max(s, d) ==
    IF terminal_test(s) THEN utility(s, player_id, W)
    ELSE IF d <= 0 THEN score(s)
    ELSE minimax_fold(s, d, -Inf, 1, FALSE)

RECURSIVE minimax_root(_, _, _, _, _)
minimax_root(s, d, best_score, best_move, i) ==
    IF i > Len(actions(s)) THEN best_move
    ELSE LET v == minimax_min(result(s, actions(s)[i]), d - 1)
         IN  IF v > best_score
             THEN minimax_root(s, d, v, actions(s)[i], i + 1)
             ELSE minimax_root(s, d, best_score, best_move, i + 1)

minimax(s, d) == minimax_root(s, d, -Inf, None, 1)

\* C3: alpha_beta with pruning returns the action of exhaustive minimax of
\* the same depth, for every state and depth it is called with directly and
\* for every search that alpha_beta_iter runs.
C3_PruningEquivalence ==
    /\ (call = "alpha_beta" /\ pc = "returned") =>
           returned = minimax(state, depth)
    /\ pc = "ab_yield" => yielded[Len(yielded)] = minimax(state, depth)

\* C3 witness: a search of depth >= 3 has been run in which the second root
\* action was cut off: min_value returned a bound, not the minimax value.
C3_Witness ==
    /\ pc = "ab_yield"
    /\ depth >= 3
    /\ Len(actions(state)) >= 2
    /\ LET c1 == result(state, actions(state)[1])
           c2 == result(state, actions(state)[2])
       IN  min_value(c2, depth - 1, minimax_min(c1, depth - 1), Inf)
               # minimax_min(c2, depth - 1)

\* C4: in every iteration each node on the path from the simulation node up
\* to the root gains exactly 1 visit and exactly the rollout result, and
\* every other node keeps its statistics, for a terminal simulation node too
\* (stated for the searches started on a non-terminal state).
C4_BackPropEffect ==
    (pc = "best" /\ ~terminal_test(state)) =>
        \A k \in 1..Len(nodes) :
            IF k \in path_to_root(nodes, exploration_node)
            THEN /\ nodes[k].visit_count = snapshot[k].visit_count + 1
                 /\ nodes[k].win_score = snapshot[k].win_score + playout
            ELSE /\ nodes[k].visit_count = snapshot[k].visit_count
                 /\ nodes[k].win_score = snapshot[k].win_score

\* C5: MCTS.next_move yields once per completed iteration, after that
\* iteration's back-propagation, and the value is the action of the first
\* root child among those with the greatest visit count.
C5_YieldRobustChild ==
    (call \in MctsCalls /\ nodes # <<>> /\ pc # "raised") =>
        /\ Len(yielded) = nodes[1].visit_count - (IF pc = "best" THEN 1 ELSE 0)
        /\ pc = "mcts_yield" =>
               \E i \in 1..Len(nodes[1].children) :
                   LET ch == nodes[1].children
                   IN  /\ yielded[Len(yielded)] = nodes[ch[i]].action
                       /\ \A j \in 1..Len(ch) :
                              nodes[ch[j]].visit_count <= nodes[ch[i]].visit_count
                       /\ \A j \in 1..(i - 1) :
                              nodes[ch[j]].visit_count < nodes[ch[i]].visit_count

\* C5 witness: a value was yielded while a later root child has as many
\* visits as the yielded one and a greater win score.
C5_Witness ==
    /\ call \in MctsCalls
    /\ pc = "mcts_yield"
    /\ \E i, j \in 1..Len(nodes[1].children) :
           LET ch == nodes[1].children
           IN  /\ i < j
               /\ yielded[Len(yielded)] = nodes[ch[i]].action
               /\ nodes[ch[j]].visit_count = nodes[ch[i]].visit_count
               /\ nodes[ch[j]].win_score > nodes[ch[i]].win_score

DriverPositions ==
    {"next_move", "select", "expand", "playout", "back_prop", "best",
     "mcts_yield", "alpha_beta_iter", "ab_loop", "ab_yield"}

\* C7: get_action puts a legal action on the queue before a driver is
\* started; for ply_count < 2 it puts exactly one action, starts no driver
\* and returns; otherwise the queue holds, after that first action, the
\* values of the driver in the order they were yielded.
C7_QueueOrder ==
    call \in GetActionCalls =>
        /\ pc \in DriverPositions =>
               Len(queue) >= 1 /\ queue[1] \in LegalActions(state)
        /\ state.ply_count < 2 =>
               /\ pc \notin DriverPositions
               /\ yielded = <<>> /\ nodes = <<>> /\ depth = 0
               /\ Len(queue) <= 1
               /\ pc = "returned" => Len(queue) = 1
        /\ Len(queue) >= 1 =>
               Tail(queue) = IF pc \in {"mcts_yield", "ab_yield"}
                             THEN SubSeq(yielded, 1, Len(yielded) - 1)
                             ELSE yielded

\* C7 witness: two values of a driver are on the queue, and they differ.
C7_Witness ==
    /\ call \in GetActionCalls
    /\ Len(queue) >= 3
    /\ queue[2] # queue[3]
    /\ queue[Len(queue)] = yielded[Len(yielded)]

\* the states of the game from s on
RECURSIVE descendants(_)
descendants(s) ==
    {s} \cup UNION {descendants(result(s, actions(s)[i])) : i \in 1..Len(actions(s))}

Windows == {<<-Inf, Inf>>, <<0, 0>>, <<-1, 1>>, <<1, -1>>, <<Inf, -Inf>>}

returns_utility(s) ==
    \A d \in -1..2 : \A w \in Windows :
        /\ min_value(s, d, w[1], w[2]) = utility(s, player_id, W)
        /\ max_value(s, d, w[1], w[2]) = utility(s, player_id, W)

\* C8: on a terminal state min_value and max_value return utility(state,
\* player_id) for every depth, alpha and beta, and random_playout on a node
\* with a terminal state returns +1 if that utility is positive, else -1.
\* The terminal states are those of the game below every state
\* alpha_beta_iter is called on, and those MCTS starts a rollout on.
C8_TerminalConsistency ==
    /\ (call = "alpha_beta_iter" /\ pc = "alpha_beta_iter") =>
           \A s \in descendants(state) : terminal_test(s) => returns_utility(s)
    /\ (pc = "back_prop" /\ terminal_test(nodes[exploration_node].state)) =>
           LET s == nodes[exploration_node].state
           IN  /\ returns_utility(s)
               /\ playout = IF utility(s, player_id, W) > 0 THEN 1 ELSE -1

\* C8 witness: a rollout was run on a terminal node whose evaluator value
\* differs from its utility.
C8_Witness ==
    /\ pc = "back_prop"
    /\ terminal_test(nodes[exploration_node].state)
    /\ score(nodes[exploration_node].state)
           # utility(nodes[exploration_node].state, player_id, W)
    /\ playout = -1

\* own and opponent liberties of the successor of s by its i-th action
succ_liberties(s, i) ==
    LET c == result(s, actions(s)[i])
    IN  <<Cardinality(liberties(c, locs(c, player_id))),
          Cardinality(liberties(c, locs(c, 1 - player_id)))>>

\* exactly two legal actions, one to a 3-own/1-opponent successor (A) and
\* one to a 1-own/3-opponent successor (B)
TwoMoveScenario(s) ==
    /\ Len(actions(s)) = 2
    /\ {succ_liberties(s, 1), succ_liberties(s, 2)} = {<<3, 1>>, <<1, 3>>}

IndexA(s) == IF succ_liberties(s, 1) = <<3, 1>> THEN 1 ELSE 2

\* C9 as stated: in the two-move scenario score gives +2 to the successor
\* of A and -2 to the successor of B, and alpha_beta(state, 2) returns A.
C9_Original ==
    TwoMoveScenario(state) =>
        /\ score(result(state, actions(state)[IndexA(state)])) = 2
        /\ score(result(state, actions(state)[3 - IndexA(state)])) = -2
        /\ (call = "alpha_beta" /\ pc = "returned" /\ depth = 2) =>
               returned = actions(state)[IndexA(state)]

\* C9 amended: in the two-move scenario score gives +2 to the successor of
\* A and -2 to the successor of B, and alpha_beta(state, 1), the search that
\* evaluates the successors themselves, returns A.
C9_Amended ==
    TwoMoveScenario(state) =>
        /\ score(result(state, actions(state)[IndexA(state)])) = 2
        /\ score(result(state, actions(state)[3 - IndexA(state)])) = -2
        /\ (call = "alpha_beta" /\ pc = "returned" /\ depth = 1) =>
               returned = actions(state)[IndexA(state)]

\* C9 witness: alpha_beta(state, 1) has returned in the two-move scenario
\* with B as the first action.
C9_Witness ==
    /\ TwoMoveScenario(state)
    /\ IndexA(state) = 2
    /\ call = "alpha_beta" /\ pc = "returned" /\ depth = 1

\* every legal action of s leads to a terminal state, exactly one of them
\* to a state won by the searching player
WinScenario(s) ==
    /\ Len(actions(s)) >= 2
    /\ \A i \in 1..Len(actions(s)) : terminal_test(result(s, actions(s)[i]))
    /\ Cardinality({i \in 1..Len(actions(s)) :
                        utility(result(s, actions(s)[i]), player_id, W) > 0}) = 1

WinningAction(s) ==
    actions(s)[CHOOSE i \in 1..Len(actions(s)) :
                   utility(result(s, actions(s)[i]), player_id, W) > 0]

\* MCTS.next_move pulled MaxPulls times on the roots of the win scenario
InitConvergence ==
    /\ call = "MCTS.next_move"
    /\ player_id \in {0, 1}
    /\ W \in {1, Inf}
    /\ \E b \in Boards, p \in RootPlies : state = Isolation(b, p)
    /\ WinScenario(state)
    /\ pulls = MaxPulls
    /\ returned = None
    /\ pc = "next_move"
    /\ queue = <<>>
    /\ yielded = <<>>
    /\ depth = 0
    /\ nodes = <<>>
    /\ promising = None
    /\ exploration_node = None
    /\ playout = 0
    /\ snapshot = <<>>
    /\ sims = <<>>

NextMCTS ==
    \/ NextMoveStart
    \/ Select
    \/ Expand
    \/ RandomPlayout
    \/ BackProp
    \/ YieldBest
    \/ Resume

SpecConvergence == InitConvergence /\ [][NextMCTS]_vars

\* C10: on a root with k >= 2 legal actions, one to a won terminal state and
\* all others to lost terminal states, every value MCTS.next_move yields
\* from iteration k + 1 on is the winning action, whatever the random
\* choices were.
C10_Convergence ==
    WinScenario(state) =>
        \A i \in 1..Len(yielded) :
            i >= Len(actions(state)) + 1 => yielded[i] = WinningAction(state)

\* C10 witness: a root with three actions, a first yield that was a losing
\* action, and at least two yields past the bound.
C10_Witness ==
    /\ WinScenario(state)
    /\ Len(actions(state)) = 3
    /\ Len(yielded) >= Len(actions(state)) + 2
    /\ yielded[1] # WinningAction(state)

(***************************************************************************)
(* Visit counts                                                            *)
(***************************************************************************)
\* the number of completed simulations whose path from the simulation node
\* to the root contains node k
simulations_through(k) ==
    Cardinality({i \in 1..Len(sims) : k \in path_to_root(nodes, sims[i])})

\* C12: each node's visit_count equals the number of completed simulations
\* whose path from the simulation node to the root contained that node; it
\* never decreases from one step to the next; the root's visit_count equals
\* the number of completed iterations.
C12_VisitCounts ==
    /\ [](\A k \in 1..Len(nodes) :
              nodes[k].visit_count = simulations_through(k))
    /\ [](Len(nodes) > 0 => nodes[1].visit_count = Len(sims))
    /\ [][\A k \in 1..Len(nodes) :
              nodes'[k].visit_count >= nodes[k].visit_count]_vars

\* C12 witness: all iterations completed, one child of the root was on the
\* path of two simulations, a grandchild was on the path of one, and some
\* node was on none.
C12_Witness ==
    /\ Len(sims) = MaxYields
    /\ \E k \in 2..Len(nodes) : nodes[k].visit_count = 2
    /\ \E k \in 2..Len(nodes) :
           nodes[k].parent # 1 /\ nodes[k].visit_count = 1
    /\ \E k \in 2..Len(nodes) : nodes[k].visit_count = 0

\* C13: when an iteration begins, every node that has children has
\* visit_count >= 1, so UCT.best_node never scores the children of a node
\* with visit_count 0 and the selection does not raise.
C13_ParentVisited ==
    pc = "select" =>
        /\ \A k \in 1..Len(nodes) :
               Len(nodes[k].children) > 0 => nodes[k].visit_count >= 1
        /\ ~promising_raises(nodes, 1)

\* C13 witness: the selection went through the root and through one of its
\* children, scoring the children of both.
C13_Witness ==
    /\ pc = "expand"
    /\ nodes[promising].parent \notin {None, 1}
    /\ Len(nodes[nodes[promising].parent].children) >= 2

(***************************************************************************)
(* Requests to the game state                                              *)
(***************************************************************************)
\* a request: op is "actions" (the legal actions of state are asked for),
\* "utility" (the utility of state is asked for) or "choice" (random.choice
\* over a list of n elements, taken in state)
Request(op, s, n) == [op |-> op, state |-> s, n |-> n]

\* the requests of the expansion step of MCTS.next_move on node n
expand_requests(ns, n) ==
    IF ~is_terminal(ns, n)
    THEN {Request("actions", ns[n].state, 0)}
    ELSE {}

\* the request of the choice of the exploration node among the children of n
child_choice_requests(ns, n) ==
    IF Len(ns[n].children) > 0
    THEN {Request("choice", ns[n].state, Len(ns[n].children))}
    ELSE {}

\* the requests of MCTS.random_playout from state s, over all random walks
RECURSIVE playout_requests(_)
playout_requests(s) ==
    IF terminal_test(s) THEN {Request("utility", s, 0)}
    ELSE {Request("actions", s, 0), Request("choice", s, Len(actions(s)))}
         \cup UNION {playout_requests(result(s, actions(s)[i])) :
                         i \in 1..Len(actions(s))}

RECURSIVE min_requests(_, _, _, _), max_requests(_, _, _, _)
RECURSIVE min_loop_requests(_, _, _, _, _, _)
RECURSIVE max_loop_requests(_, _, _, _, _, _)

\* the requests of the for loop of min_value from the i-th action on
min_loop_requests(m_state, m_depth, m_alpha, m_beta, value, i) ==
    IF i > Len(actions(m_state)) THEN {}
    ELSE LET child == result(m_state, actions(m_state)[i])
             v == Min(value, max_value(child, m_depth - 1, m_alpha, m_beta))
         IN  max_requests(child, m_depth - 1, m_alpha, m_beta)
             \cup (IF v <= m_alpha THEN {}
                   ELSE min_loop_requests(m_state, m_depth, m_alpha,
                                          Min(m_beta, v), v, i + 1))

\* the requests of the for loop of max_value from the i-th action on
max_loop_requests(m_state, m_depth, m_alpha, m_beta, value, i) ==
    IF i > Len(actions(m_state)) THEN {}
    ELSE LET child == result(m_state, actions(m_state)[i])
             v == Max(value, min_value(child, m_depth - 1, m_alpha, m_beta))
         IN  min_requests(child, m_depth - 1, m_alpha, m_beta)
             \cup (IF v >= m_beta THEN {}
                   ELSE max_loop_requests(m_state, m_depth, Max(m_alpha, v),
                                          m_beta, v, i + 1))

\* the requests of min_value
min_requests(m_state, m_depth, m_alpha, m_beta) ==
    IF terminal_test(m_state) THEN {Request("utility", m_state, 0)}
    ELSE IF m_depth <= 0 THEN {}
    ELSE {Request("actions", m_state, 0)}
         \cup min_loop_requests(m_state, m_depth, m_alpha, m_beta, Inf, 1)

\* the requests of max_value
max_requests(m_state, m_depth, m_alpha, m_beta) ==
    IF terminal_test(m_state) THEN {Request("utility", m_state, 0)}
    ELSE IF m_depth <= 0 THEN {}
    ELSE {Request("actions", m_state, 0)}
         \cup max_loop_requests(m_state, m_depth, m_alpha, m_beta, -Inf, 1)

\* the requests of the root loop of alpha_beta from the i-th action on
RECURSIVE root_loop_requests(_, _, _, _)
root_loop_requests(s, d, alpha, i) ==
    IF i > Len(actions(s)) THEN {}
    ELSE LET child == result(s, actions(s)[i])
             v == min_value(child, d - 1, alpha, Inf)
         IN  min_requests(child, d - 1, alpha, Inf)
             \cup root_loop_requests(s, d, Max(alpha, v), i + 1)

\* the requests of AlphaBetaPlayer.alpha_beta
alpha_beta_requests(s, d) ==
    {Request("actions", s, 0)} \cup root_loop_requests(s, d, -Inf, 1)

\* a request the game state answers: actions of a state that is not
\* terminal, utility of a terminal state, a choice among at least one element
Answerable(q) ==
    /\ q.op = "actions" => ~terminal_test(q.state)
    /\ q.op = "utility" => terminal_test(q.state)
    /\ q.op = "choice" => q.n > 0

\* C14: in every run of MCTS.next_move or alpha_beta started on a state that
\* is not terminal, legal actions are requested only of states whose
\* terminal test is false, utility only of states whose terminal test is
\* true, and no random choice is made from an empty list.
C14_Requests ==
    ~terminal_test(state) =>
        /\ pc = "expand" =>
               \A q \in expand_requests(nodes, promising) : Answerable(q)
        /\ pc = "playout" =>
               \A q \in child_choice_requests(nodes, promising)
                        \cup playout_requests(nodes[exploration_node].state) :
                   Answerable(q)
        /\ (call = "alpha_beta" /\ pc = "returned") =>
               \A q \in alpha_beta_requests(state, depth) : Answerable(q)
        /\ (call = "alpha_beta_iter" /\ pc = "ab_yield") =>
               \A q \in alpha_beta_requests(state, depth) : Answerable(q)

\* C14 witness: a finished search of depth 3 from a state that is not terminal, which
\* asked the utility of a terminal state and the actions of a state two
\* plies below the root.
C14_Witness ==
    /\ call = "alpha_beta" /\ pc = "returned" /\ depth = 3
    /\ ~terminal_test(state)
    /\ \E q \in alpha_beta_requests(state, depth) : q.op = "utility"
    /\ \E q \in alpha_beta_requests(state, depth) :
           q.op = "actions" /\ q.state.ply_count = state.ply_count + 2

(***************************************************************************)
(* Selection among unvisited children                                      *)
(***************************************************************************)
\* node n has a child that was never visited
has_unvisited(ns, n) ==
    \E i \in 1..Len(ns[n].children) : ns[ns[n].children[i]].visit_count = 0

\* the first child of node n, in insertion order, that was never visited
first_unvisited(ns, n) ==
    ns[n].children[CHOOSE i \in 1..Len(ns[n].children) :
        /\ ns[ns[n].children[i]].visit_count = 0
        /\ \A j \in 1..(i - 1) : ns[ns[n].children[j]].visit_count # 0]

\* C15: whenever a node with visit_count >= 1 has at least one child with
\* visit_count 0, UCT.best_node returns the first child in insertion order
\* whose visit_count is 0; a visited child is never returned while an
\* unvisited sibling exists. The nodes are all those of the tree at the
\* moment the selection begins.
C15_UnvisitedFirst ==
    pc = "select" =>
        \A k \in 1..Len(nodes) :
            (nodes[k].visit_count >= 1 /\ has_unvisited(nodes, k)) =>
                /\ best_node(nodes, k) = first_unvisited(nodes, k)
                /\ nodes[best_node(nodes, k)].visit_count = 0

\* C15 witness: the selection stopped at the second child of a node whose
\* first child was visited and whose third child was not.
C15_Witness ==
    /\ pc = "expand"
    /\ promising # 1
    /\ LET p == nodes[promising].parent
       IN  /\ nodes[p].visit_count >= 1
           /\ Len(nodes[p].children) = 3
           /\ nodes[p].children[2] = promising
           /\ nodes[nodes[p].children[1]].visit_count >= 1
           /\ nodes[nodes[p].children[3]].visit_count = 0
           /\ nodes[promising].visit_count = 0

(***************************************************************************)
(* Expansion                                                               *)
(***************************************************************************)
\* C16: terminal nodes have no children; selection adds no node; in each
\* iteration the simulation node is the selected leaf itself exactly when
\* that leaf is terminal, and otherwise one of the children just created
\* for that leaf.
C16_Expansion ==
    /\ [](\A k \in 1..Len(nodes) :
              terminal_test(nodes[k].state) => Len(nodes[k].children) = 0)
    /\ [][pc = "select" => nodes' = nodes]_vars
    /\ [][pc = "expand" =>
              IF terminal_test(nodes[promising].state)
              THEN /\ nodes' = nodes
                   /\ exploration_node' = promising
              ELSE /\ exploration_node' # promising
                   /\ exploration_node' > Len(nodes)
                   /\ exploration_node' \in Range(nodes'[promising].children)
                   /\ Len(nodes[promising].children) = 0]_vars

\* C16 witness: a leaf below the root was expanded and the simulation starts
\* from one of its new children, after an earlier iteration simulated a
\* terminal leaf itself.
C16_Witness ==
    /\ pc = "playout"
    /\ promising # 1
    /\ exploration_node # promising
    /\ nodes[exploration_node].parent = promising
    /\ \E i \in 1..Len(sims) :
           /\ terminal_test(nodes[sims[i]].state)
           /\ Len(nodes[sims[i]].children) = 0

(***************************************************************************)
(* Shape of the tree                                                       *)
(***************************************************************************)
\* C17: the root has no action and no parent; every other node has exactly
\* one parent, its state is the parent's state after the node's action and
\* its player_id is the root's; every node is expanded at most once, so a
\* node has no children or exactly one child per legal action of its state,
\* with pairwise distinct actions. The tree is looked at whenever it was
\* just built or extended: no other step changes a parent, an action, a
\* state or a list of children.
C17_TreeShape ==
    (pc \in {"select", "playout"} /\ Len(nodes) > 0) =>
        /\ nodes[1].action = None
        /\ nodes[1].parent = None
        \* a node stands in the children of its parent only, and the root in none
        /\ \A m \in 1..Len(nodes) : \A i \in 1..Len(nodes[m].children) :
               /\ nodes[m].children[i] \in 2..Len(nodes)
               /\ nodes[nodes[m].children[i]].parent = m
        /\ \A k \in 2..Len(nodes) :
               LET p == nodes[k].parent
               IN  /\ p \in 1..Len(nodes)
                   /\ Cardinality({i \in 1..Len(nodes[p].children) :
                                      nodes[p].children[i] = k}) = 1
                   /\ nodes[k].state = result(nodes[p].state, nodes[k].action)
                   /\ nodes[k].player_id = nodes[1].player_id
        /\ \A k \in 1..Len(nodes) :
               LET ch == nodes[k].children
               IN  \/ Len(ch) = 0
                   \/ /\ Len(ch) = Cardinality(LegalActions(nodes[k].state))
                      /\ \A a \in LegalActions(nodes[k].state) :
                             Cardinality({i \in 1..Len(ch) :
                                             nodes[ch[i]].action = a}) = 1

\* C17 witness: after the last iteration the tree has the root, children of
\* the root and children of two of those, one with at least two children.
C17_Witness ==
    /\ pc = "mcts_yield"
    /\ Len(sims) = MaxYields
    /\ Cardinality({nodes[k].parent : k \in 2..Len(nodes)}) = 3
    /\ \E k \in 2..Len(nodes) : Len(nodes[k].children) >= 2

(***************************************************************************)
(* Values returned under a window                                          *)
(***************************************************************************)
\* the bounds a window is made of, and the windows with alpha < beta
WindowBounds == {-Inf, -2, -1, 0, 1, 2, Inf}

OpenWindows == {w \in WindowBounds \X WindowBounds : w[1] < w[2]}

\* the non-terminal successors of s: the states a search from s calls
\* min_value on and goes on searching below
inner_successors(s) ==
    {c \in {result(s, actions(s)[i]) : i \in 1..Len(actions(s))} :
        ~terminal_test(c)}

\* v lies in the window [alpha, beta]
in_window(v, alpha, beta) == alpha <= v /\ v <= beta

\* v is what a fail-soft search may return for the exact value m: m itself
\* strictly inside the window, an upper bound of m at or below alpha, a
\* lower bound of m at or above beta
fail_soft(v, m, alpha, beta) ==
    /\ (alpha < v /\ v < beta) => v = m
    /\ v <= alpha => m <= v
    /\ v >= beta => m >= v

\* C18 as stated: the pruning is fail-hard. For every non-terminal state,
\* depth > 0 and alpha < beta, the value max_value and min_value return lies
\* in [alpha, beta]. The states are the non-terminal successors of each
\* state alpha_beta was called on, the depth is the one the search gives
\* them.
C18_FailHard ==
    (call = "alpha_beta" /\ pc = "returned" /\ depth >= 2) =>
        \A c \in inner_successors(state) : \A w \in OpenWindows :
            /\ in_window(min_value(c, depth - 1, w[1], w[2]), w[1], w[2])
            /\ in_window(max_value(c, depth - 1, w[1], w[2]), w[1], w[2])

\* C18 amended: the pruning is fail-soft. For every non-terminal state,
\* depth > 0 and alpha < beta, the value v that max_value or min_value
\* returns is the exact minimax value when alpha < v < beta, an upper bound
\* of it when v <= alpha and a lower bound of it when v >= beta; on a
\* cut-off the running value is returned, which may lie outside
\* [alpha, beta]. The states are the non-terminal successors of each state
\* alpha_beta was called on with depth 2 to 4, searched to depth 1 to 3.
C18_FailSoft ==
    (call = "alpha_beta" /\ pc = "returned" /\ depth \in 2..4) =>
        \A c \in inner_successors(state) :
            LET exact_min == minimax_min(c, depth - 1)
                exact_max == minimax_max(c, depth - 1)
            IN  \A w \in OpenWindows :
                    /\ fail_soft(min_value(c, depth - 1, w[1], w[2]),
                                 exact_min, w[1], w[2])
                    /\ fail_soft(max_value(c, depth - 1, w[1], w[2]),
                                 exact_max, w[1], w[2])

\* C18 witness: a finished search of depth 3 in which, on the root's second
\* action, min_value was cut off and returned a value below the alpha the
\* root loop passed to it, and that value is not the minimax value.
C18_Witness ==
    /\ call = "alpha_beta" /\ pc = "returned" /\ depth = 3
    /\ Len(actions(state)) >= 2
    /\ LET c1 == result(state, actions(state)[1])
           c2 == result(state, actions(state)[2])
           alpha == min_value(c1, depth - 1, -Inf, Inf)
           v == min_value(c2, depth - 1, alpha, Inf)
       IN  /\ ~terminal_test(c2)
           /\ -Inf < alpha
           /\ v < alpha
           /\ minimax_min(c2, depth - 1) < v

(***************************************************************************)
(* Visits of a node and of its children                                    *)
(***************************************************************************)
\* the sum of the visit counts of the children of node n from the i-th on
RECURSIVE children_visits(_, _, _)
children_visits(ns, n, i) ==
    IF i > Len(ns[n].children) THEN 0
    ELSE ns[ns[n].children[i]].visit_count + children_visits(ns, n, i + 1)

\* the number of completed iterations whose simulation node was node k
simulations_at(k) == Cardinality({i \in 1..Len(sims) : sims[i] = k})

\* C19: at the end of every iteration, for every node with children, its
\* visit_count minus the sum of its children's visit_counts is 0 or 1; it is
\* 1 exactly when the node was once the simulation node, which was before
\* it was expanded; for the root the difference is 0.
C19_VisitBalance ==
    pc \in {"best", "mcts_yield", "select"} =>
        \A k \in 1..Len(nodes) :
            Len(nodes[k].children) > 0 =>
                LET diff == nodes[k].visit_count - children_visits(nodes, k, 1)
                IN  /\ diff \in {0, 1}
                    /\ diff = 1 <=> simulations_at(k) = 1
                    /\ diff = 0 <=> simulations_at(k) = 0
                    /\ k = 1 => diff = 0

\* C19 witness: after the last back-propagation the tree holds an expanded
\* node that was a simulation node earlier (difference 1) and another
\* expanded node below the root that never was (difference 0).
C19_Witness ==
    /\ pc = "best"
    /\ Len(sims) = MaxYields
    /\ \E k \in 2..Len(nodes) :
           /\ Len(nodes[k].children) > 0
           /\ simulations_at(k) = 1
           /\ nodes[k].visit_count = children_visits(nodes, k, 1) + 1
    /\ \E k \in 2..Len(nodes) :
           /\ Len(nodes[k].children) > 0
           /\ simulations_at(k) = 0
           /\ nodes[k].visit_count = children_visits(nodes, k, 1)
           /\ nodes[k].visit_count >= 1

====
